---- MODULE Spec2Model ----
(***************************************************************************)
(* State-machine model of the settings layer of screenpipe-app-tauri:      *)
(*   - the embedded-model control panel (SidecarController and             *)
(*     ModelController of src/unnamed/part_000), specification SpecPanel;  *)
(*   - the provider setup form (RegularProviderSetupForm of                *)
(*     modules/settings/components/ai-section/provider-setup-forms.tsx),   *)
(*     specification SpecForm;                                             *)
(*   - the generated setup form of the custom provider (the field          *)
(*     descriptors of modules/ai-providers/providers/custom/setup-form.ts  *)
(*     under the Form of src/unnamed/part_002), specification              *)
(*     SpecValidation;                                                     *)
(*   - the onboarding flow (OnboardingProvider of                          *)
(*     components/onboarding/context.tsx), specification SpecOnboarding;   *)
(*   - the command line's handleError (src/unnamed/part_003),              *)
(*     specification SpecHandleError;                                      *)
(*   - handleSubmit and resetForm of the Form component                    *)
(*     (src/unnamed/part_002), specification SpecShell.                    *)
(* The first two read and write the same persisted settings record.        *)
(***************************************************************************)
EXTENDS Integers, Sequences, FiniteSets, TLC

VARIABLES
    settings,       \* the persisted settings record (useSettings().settings)
    toasts,         \* notifications shown since the running submission started
    \* ---- embedded-model control panel
    sidecarStatus,  \* useLLM().sidecarStatus
    modelStatus,    \* useLLM().modelStatus
    portValue,      \* current text of the port input (react-hook-form value)
    portDefault,    \* the port form's default value (react-hook-form defaultValues)
    lastAction,     \* the last button handler invoked, with the state it was invoked in
    \* ---- provider setup form
    aiProvider,     \* the selected provider (prop of RegularProviderSetupForm)
    user,           \* useUser().user is set
    data,           \* the setup-form query has produced data for aiProvider
    AiProviders,    \* the providers whose registry entry defines credentialValidation
    pc,             \* position of the running submission; "resolved" and "rejected"
                    \* are how the promise of submitChanges settled for its caller
    sub,            \* closure of the running submitChanges: [aiProvider, values]
    failure,        \* the error the running mutation threw, or NoError
    failureCount,   \* failed attempts of the running mutation
    variables,      \* the argument the running mutation was invoked with
    log,            \* what the running submission did so far, in order
    \* ---- generated setup form of the custom provider
    fieldValues,    \* current values of the form's fields (react-hook-form values)
    defaultValues,  \* the values a reset of the form goes back to
    lastSubmit,     \* outcome of the last submit: the validator's errors and
                    \* whether the submit callback was invoked
    \* ---- onboarding flow
    currentSlide,            \* useOnboardingFlow().currentSlide
    restartPending,          \* useOnboardingVisibility().restartPending
    selectedOptions,         \* useOnboardingUserInput().selectedOptions
    selectedPreference,      \* useOnboardingUserInput().selectedPreference
    selectedPersonalization, \* useOnboardingUserInput().selectedPersonalization
    showOnboarding,          \* useOnboardingVisibility().showOnboarding
    \* ---- handleError
    error,          \* the value handleError was called with
    hpc,            \* position of the running handleError
    entry,          \* index of the loop over the field errors
    logged,         \* what the logger has written, in order
    process,        \* the process: whether it has exited, and its exit code
    \* ---- the Form component around the generated form
    refForm,        \* refForm.current is set: the form handle is present
    props,          \* which of the callbacks onCreate and onReset the Form was given
    fpc,            \* the await a running handleSubmit or resetForm is at
    calls           \* what the running operation of the Form did so far, in order

panelVars == <<sidecarStatus, modelStatus, portValue, portDefault, lastAction>>
formVars == <<aiProvider, user, data, AiProviders, pc, sub, failure,
              failureCount, variables, log>>
validationVars == <<fieldValues, defaultValues, lastSubmit>>
onboardingVars == <<currentSlide, restartPending, selectedOptions,
                    selectedPreference, selectedPersonalization, showOnboarding>>
errorVars == <<error, hpc, entry, logged, process>>
shellVars == <<refForm, props, fpc, calls>>
vars == <<settings, toasts, panelVars, formVars, validationVars, onboardingVars,
          errorVars, shellVars>>

----------------------------------------------------------------------------
(* Bounds of the model *)

\* longest text typed into the port input
MaxPortLen == 2

\* longest text typed into the endpoint url input: one more than the
\* descriptor's max
MaxUrlLen == 51

\* longest text typed into the other text inputs of the setup form
MaxTextLen == 1

\* number of slides of the onboarding's slide sequence
NumSlides == 4

\* most issues a ZodError passed to handleError holds
MaxIssues == 2

----------------------------------------------------------------------------
(* Enumerations *)

SidecarState == {"INACTIVE", "ACTIVE", "ERROR", "UNKNOWN"}
ModelState == {"INACTIVE", "RUNNING", "ERROR", "UNKNOWN"}
AvailableAiProviders == {"EMBEDDED", "SCREENPIPE_CLOUD", "CUSTOM"}

\* characters typed into the port input: a digit and a non-digit
PortChars == {"1", "x"}

----------------------------------------------------------------------------
(* Declarative data *)

\* faulty variant: the model is an optional field
fields_ModelOptional ==
    <<[key |-> "aiUrl", title |-> "endpoint url",
       validationMeta |-> [errorMessage |-> "this field is mandatory",
                           min |-> 1, max |-> 50, optional |-> FALSE],
       typeMeta |-> [isRegular |-> TRUE, type |-> "STRING"]],
      [key |-> "aiModel", title |-> "ai model",
       validationMeta |-> [optional |-> TRUE],
       typeMeta |-> [isRegular |-> FALSE, type |-> "SELECT_CREATEABLE"]],
      [key |-> "customPrompt", title |-> "prompt",
       validationMeta |-> [optional |-> FALSE,
                           errorMessage |-> "you need to provide a custom prompt"],
       typeMeta |-> [isRegular |-> TRUE, type |-> "TEXTAREA"]],
      [key |-> "aiMaxContextChars", title |-> "max content",
       validationMeta |-> [optional |-> FALSE,
                           errorMessage |-> "you need to provide a custom prompt"],
       typeMeta |-> [isRegular |-> TRUE, type |-> "SLIDER"]]>>

\* faulty variant: the endpoint url may be 40 characters long at most
fields_UrlMax40 ==
    <<[key |-> "aiUrl", title |-> "endpoint url",
       validationMeta |-> [errorMessage |-> "this field is mandatory",
                           min |-> 1, max |-> 40, optional |-> FALSE],
       typeMeta |-> [isRegular |-> TRUE, type |-> "STRING"]],
      [key |-> "aiModel", title |-> "ai model",
       validationMeta |-> [optional |-> FALSE],
       typeMeta |-> [isRegular |-> FALSE, type |-> "SELECT_CREATEABLE"]],
      [key |-> "customPrompt", title |-> "prompt",
       validationMeta |-> [optional |-> FALSE,
                           errorMessage |-> "you need to provide a custom prompt"],
       typeMeta |-> [isRegular |-> TRUE, type |-> "TEXTAREA"]],
      [key |-> "aiMaxContextChars", title |-> "max content",
       validationMeta |-> [optional |-> FALSE,
                           errorMessage |-> "you need to provide a custom prompt"],
       typeMeta |-> [isRegular |-> TRUE, type |-> "SLIDER"]]>>

\* the field descriptors of the custom provider's setup form
fields ==
    <<[key |-> "aiUrl", title |-> "endpoint url",
       validationMeta |-> [errorMessage |-> "this field is mandatory",
                           min |-> 1, max |-> 50, optional |-> FALSE],
       typeMeta |-> [isRegular |-> TRUE, type |-> "STRING"]],
      [key |-> "aiModel", title |-> "ai model",
       validationMeta |-> [optional |-> FALSE],
       typeMeta |-> [isRegular |-> FALSE, type |-> "SELECT_CREATEABLE"]],
      [key |-> "customPrompt", title |-> "prompt",
       validationMeta |-> [optional |-> FALSE,
                           errorMessage |-> "you need to provide a custom prompt"],
       typeMeta |-> [isRegular |-> TRUE, type |-> "TEXTAREA"]],
      [key |-> "aiMaxContextChars", title |-> "max content",
       validationMeta |-> [optional |-> FALSE,
                           errorMessage |-> "you need to provide a custom prompt"],
       typeMeta |-> [isRegular |-> TRUE, type |-> "SLIDER"]]>>

CustomSetupForm ==
    [title |-> "configuration", fields |-> fields, buttonText |-> "submit changes"]

\* the keys of a sequence of field descriptors
FieldKeys(fs) == {fs[i].key : i \in DOMAIN fs}

\* a field's value is kept as a sequence: the characters of a text, the one
\* number of a slider, or the empty sequence when the field holds nothing
EmptyValues == [k \in FieldKeys(fields) |-> <<>>]

\* no submit has been validated yet
NoFieldError == "none"
NoSubmit ==
    [validated |-> FALSE,
     errors |-> [k \in FieldKeys(fields) |-> NoFieldError],
     invoked |-> FALSE]

\* string | null
Null == "null"

\* the ordered sequence of the onboarding's slides, by key
slideFlow == [i \in 1..NumSlides |-> <<"slide", i>>]

\* what the onboarding offers to select
OnboardingOptions == {"personalUse", "professionalUse"}
OnboardingPreferences == {"standardView", "devMode"}
OnboardingPersonalizations == {"withAI"}

----------------------------------------------------------------------------
(* Text <-> number conversions used by the port form *)

DigitChars == <<"0", "1", "2", "3", "4", "5", "6", "7", "8", "9">>
IsDigit(c) == \E d \in 1..10 : DigitChars[d] = c
DigitValue(c) == (CHOOSE d \in 1..10 : DigitChars[d] = c) - 1

\* the value parseInt yields when no leading digits are found
NaN == -1

\* length of the longest prefix of s made of decimal digits
RECURSIVE DigitPrefix(_)
DigitPrefix(s) ==
    IF s = <<>> \/ ~IsDigit(Head(s)) THEN 0 ELSE 1 + DigitPrefix(Tail(s))

RECURSIVE DigitsValue(_, _)
DigitsValue(s, acc) ==
    IF s = <<>> THEN acc
    ELSE DigitsValue(Tail(s), 10 * acc + DigitValue(Head(s)))

\* parseInt(s, 10) for texts without whitespace or sign: the number written by
\* the leading digits, NaN when there is none
ParseInt(s) ==
    LET n == DigitPrefix(s)
    IN  IF n = 0 THEN NaN ELSE DigitsValue(SubSeq(s, 1, n), 0)

\* Number.prototype.toString() of a non-negative integer
RECURSIVE toString(_)
toString(n) ==
    IF n < 10 THEN <<DigitChars[n + 1]>>
    ELSE toString(n \div 10) \o <<DigitChars[(n % 10) + 1]>>

----------------------------------------------------------------------------
(* Settings and notifications *)

\* description of a toast given none
NoDescription == "<none>"

Toast(title, description, variant) ==
    [title |-> title, description |-> description, variant |-> variant]

\* faulty variant: the message is shown as it is, with no fallback for an empty one
ErrorDescription_NoFallback(message) == message

\* e.message ? e.message : 'please try again.'
ErrorDescription(message) == IF message # "" THEN message ELSE "please try again."

\* { ...a, ...b }: object spread, the right operand wins on a shared key
Spread(a, b) ==
    [k \in (DOMAIN a) \cup (DOMAIN b) |-> IF k \in DOMAIN b THEN b[k] ELSE a[k]]

\* the settings store's updateSettings(values): the given keys replace the
\* stored ones, the other keys are kept
updateSettings(values) == Spread(settings, values)

InitialSettings ==
    [aiProviderType |-> "CUSTOM",
     embeddedLLM |-> [port |-> 11, model |-> "llama3.2", enabled |-> FALSE]]

NoError == [thrown |-> FALSE, message |-> ""]
Error(message) == [thrown |-> TRUE, message |-> message]
\* the messages of the errors the collaborators throw; a thrown value with no
\* message property gives new Error(undefined), whose message is ""
ErrorMessages == {"", "invalid api key"}

----------------------------------------------------------------------------
(* The embedded-model control panel: SidecarController and ModelController *)

\* form.formState.isDirty of the port form: the value differs from the default
isDirty == portValue # portDefault

\* faulty variant: unsaved port edits do not disable the start button
isPlayButtonDisabled_IgnoresDirty ==
    IF sidecarStatus = "ACTIVE" \/ sidecarStatus = "UNKNOWN" THEN TRUE ELSE FALSE

\* SidecarController: disabled attribute of the start button
isPlayButtonDisabled ==
    IF sidecarStatus = "ACTIVE" \/ sidecarStatus = "UNKNOWN" \/ isDirty
    THEN TRUE
    ELSE FALSE

\* faulty variant: the stop button is disabled only while the sidecar is INACTIVE
isPauseButtonDisabled_OnlyInactive ==
    IF sidecarStatus = "INACTIVE" THEN TRUE ELSE FALSE

\* SidecarController: disabled attribute of the stop button
isPauseButtonDisabled ==
    IF sidecarStatus # "ACTIVE" THEN TRUE ELSE FALSE

\* faulty variant: a running model does not disable the start button
playButtonDisabled_IgnoresRunning ==
    IF sidecarStatus # "ACTIVE" THEN TRUE
    ELSE IF modelStatus = "ERROR" THEN TRUE
    ELSE FALSE

\* faulty variant: a model in ERROR does not disable the start button
playButtonDisabled_AllowsError ==
    IF sidecarStatus # "ACTIVE" THEN TRUE
    ELSE IF modelStatus = "RUNNING" THEN TRUE
    ELSE FALSE

\* ModelController: disabled attribute of the start button
playButtonDisabled ==
    IF sidecarStatus # "ACTIVE" THEN TRUE
    ELSE IF modelStatus = "RUNNING" \/ modelStatus = "ERROR" THEN TRUE
    ELSE FALSE

\* faulty variant: a model in ERROR can be stopped like a running one
pauseButtonDisabled_AllowsError ==
    IF sidecarStatus # "ACTIVE" THEN TRUE
    ELSE IF modelStatus # "RUNNING" /\ modelStatus # "ERROR" THEN TRUE
    ELSE FALSE

\* faulty variant: the sidecar status is not looked at
pauseButtonDisabled_IgnoresSidecar ==
    IF modelStatus # "RUNNING" THEN TRUE ELSE FALSE

\* ModelController: disabled attribute of the stop button
pauseButtonDisabled ==
    IF sidecarStatus # "ACTIVE" THEN TRUE
    ELSE IF modelStatus # "RUNNING" THEN TRUE
    ELSE FALSE

\* faulty variant: the text of the UNKNOWN status is left out
SidecarController_tooltipTexts_NoUnknown ==
    [INACTIVE |-> "screenpipe's sidecar is currently not running",
     ERROR |-> "there was an issue while running the sidecar",
     ACTIVE |-> <<"sidecar is currently exposed at port: ", settings.embeddedLLM.port>>]

\* SidecarController.tooltipTexts: the text the status display shows per status
SidecarController_tooltipTexts ==
    [INACTIVE |-> "screenpipe's sidecar is currently not running",
     ERROR |-> "there was an issue while running the sidecar",
     ACTIVE |-> <<"sidecar is currently exposed at port: ", settings.embeddedLLM.port>>,
     UNKNOWN |-> "we're checking sidecar status"]

\* ModelController.tooltipTexts
ModelController_tooltipTexts ==
    [INACTIVE |-> "no model is currently running",
     ERROR |-> "there was an issue while running the model",
     RUNNING |-> <<settings.embeddedLLM.model, " is currently running">>,
     UNKNOWN |-> "we're checking model status"]

NoAction == [button |-> "none", sidecarStatus |-> "UNKNOWN",
             modelStatus |-> "UNKNOWN", isDirty |-> FALSE]

\* a click that reaches the handler: what was invoked, and in which state
Invoked(button) ==
    [button |-> button, sidecarStatus |-> sidecarStatus,
     modelStatus |-> modelStatus, isDirty |-> isDirty]

\* a poll of the local process reports another sidecar status
PollSidecarStatus ==
    /\ \E s \in SidecarState :
          /\ s # sidecarStatus
          /\ sidecarStatus' = s
    /\ UNCHANGED <<settings, toasts, modelStatus, portValue, portDefault,
                   lastAction, formVars, validationVars, onboardingVars, errorVars, shellVars>>

\* a poll of the local process reports another model status
PollModelStatus ==
    /\ \E m \in ModelState :
          /\ m # modelStatus
          /\ modelStatus' = m
    /\ UNCHANGED <<settings, toasts, sidecarStatus, portValue, portDefault,
                   lastAction, formVars, validationVars, onboardingVars, errorVars, shellVars>>

\* the user edits the port input: a character typed at the end, or the last
\* one deleted
EditPort ==
    /\ \/ /\ Len(portValue) < MaxPortLen
          /\ \E c \in PortChars : portValue' = Append(portValue, c)
       \/ /\ portValue # <<>>
          /\ portValue' = SubSeq(portValue, 1, Len(portValue) - 1)
    /\ UNCHANGED <<settings, toasts, sidecarStatus, modelStatus, portDefault,
                   lastAction, formVars, validationVars, onboardingVars, errorVars, shellVars>>

\* faulty variant: the save leaves the persisted enabled flag as it is
handleFormSubmit_KeepsEnabled ==
    LET values == [port |-> portValue]
        update == [embeddedLLM |->
                      [port |-> ParseInt(values.port),
                       model |-> settings.embeddedLLM.model,
                       enabled |-> settings.embeddedLLM.enabled]]
    IN  \/ /\ settings' = updateSettings(update)
           /\ toasts' = <<Toast("sidecar default port updated", NoDescription, "default")>>
           /\ portValue' = values.port
           /\ portDefault' = values.port
           /\ UNCHANGED <<sidecarStatus, modelStatus, lastAction, formVars,
                          validationVars, onboardingVars, errorVars, shellVars>>
        \/ /\ \E m \in ErrorMessages :
                 toasts' = <<Toast("form submission failed!", ErrorDescription(m),
                                   "destructive")>>
           /\ UNCHANGED <<settings, portValue, portDefault, sidecarStatus,
                          modelStatus, lastAction, formVars, validationVars,
                          onboardingVars, errorVars, shellVars>>

\* the port form is submitted (the save button, or Enter in the input):
\* handleFormSubmit with the SidecarController's updateSettingsAsync mutation
handleFormSubmit ==
    LET values == [port |-> portValue]
        update == [embeddedLLM |->
                      [port |-> ParseInt(values.port),
                       model |-> settings.embeddedLLM.model,
                       enabled |-> TRUE]]
    IN  \/ \* updateSettings returns: onSuccess, then form.reset({port})
           /\ settings' = updateSettings(update)
           /\ toasts' = <<Toast("sidecar default port updated", NoDescription, "default")>>
           /\ portValue' = values.port
           /\ portDefault' = values.port
           /\ UNCHANGED <<sidecarStatus, modelStatus, lastAction, formVars, validationVars, onboardingVars, errorVars, shellVars>>
        \/ \* updateSettings throws: onError, the await rejects before the reset
           /\ \E m \in ErrorMessages :
                 toasts' = <<Toast("form submission failed!", ErrorDescription(m),
                                   "destructive")>>
           /\ UNCHANGED <<settings, portValue, portDefault, sidecarStatus,
                          modelStatus, lastAction, formVars, validationVars, onboardingVars, errorVars, shellVars>>

\* the erase button, rendered while the form is dirty: form.reset()
resetForm ==
    /\ isDirty
    /\ portValue' = portDefault
    /\ UNCHANGED <<settings, toasts, sidecarStatus, modelStatus, portDefault,
                   lastAction, formVars, validationVars, onboardingVars, errorVars, shellVars>>

\* a click on a button runs its handler unless the button is disabled
ClickSidecarStart ==
    /\ ~isPlayButtonDisabled
    /\ lastAction' = Invoked("sidecarStart")
    /\ UNCHANGED <<settings, toasts, sidecarStatus, modelStatus, portValue,
                   portDefault, formVars, validationVars, onboardingVars, errorVars, shellVars>>

ClickSidecarStop ==
    /\ ~isPauseButtonDisabled
    /\ lastAction' = Invoked("sidecarStop")
    /\ UNCHANGED <<settings, toasts, sidecarStatus, modelStatus, portValue,
                   portDefault, formVars, validationVars, onboardingVars, errorVars, shellVars>>

ClickModelStart ==
    /\ ~playButtonDisabled
    /\ lastAction' = Invoked("modelStart")
    /\ UNCHANGED <<settings, toasts, sidecarStatus, modelStatus, portValue,
                   portDefault, formVars, validationVars, onboardingVars, errorVars, shellVars>>

ClickModelStop ==
    /\ ~pauseButtonDisabled
    /\ lastAction' = Invoked("modelStop")
    /\ UNCHANGED <<settings, toasts, sidecarStatus, modelStatus, portValue,
                   portDefault, formVars, validationVars, onboardingVars, errorVars, shellVars>>

\* the generated setup form's variables while another view is shown
ValidationIdle ==
    /\ fieldValues = EmptyValues
    /\ defaultValues = EmptyValues
    /\ lastSubmit = NoSubmit

\* the onboarding's variables while another view is shown
OnboardingIdle ==
    /\ currentSlide = slideFlow[1]
    /\ restartPending = FALSE
    /\ selectedOptions = {}
    /\ selectedPreference = Null
    /\ selectedPersonalization = Null
    /\ showOnboarding = FALSE

\* the Form component as the generated setup form uses it: the handle is
\* present, a submit callback is given, no operation is running
ShellIdle ==
    /\ refForm = TRUE
    /\ props = [onCreate |-> TRUE, onReset |-> FALSE]
    /\ fpc = "idle"
    /\ calls = <<>>

\* handleError has not been called
ErrorIdle ==
    /\ error = [type |-> "undefined"]
    /\ hpc = "idle"
    /\ entry = 1
    /\ logged = <<>>
    /\ process = [exited |-> FALSE, code |-> 0]

\* the provider form's variables while the panel is the view shown
FormIdle ==
    /\ aiProvider = "EMBEDDED"
    /\ user = FALSE
    /\ data = FALSE
    /\ AiProviders = {}
    /\ pc = "idle"
    /\ sub = [aiProvider |-> "EMBEDDED", values |-> <<>>]
    /\ failure = NoError
    /\ failureCount = 0
    /\ variables = <<>>
    /\ log = <<>>

InitPanel ==
    /\ settings = InitialSettings
    /\ toasts = <<>>
    /\ sidecarStatus = "UNKNOWN"
    /\ modelStatus = "UNKNOWN"
    /\ portValue = toString(settings.embeddedLLM.port)
    /\ portDefault = toString(settings.embeddedLLM.port)
    /\ lastAction = NoAction
    /\ FormIdle
    /\ ValidationIdle
    /\ OnboardingIdle
    /\ ErrorIdle
    /\ ShellIdle

NextPanel ==
    \/ PollSidecarStatus
    \/ PollModelStatus
    \/ EditPort
    \/ handleFormSubmit
    \/ resetForm
    \/ ClickSidecarStart
    \/ ClickSidecarStop
    \/ ClickModelStart
    \/ ClickModelStop

SpecPanel == InitPanel /\ [][NextPanel]_vars

----------------------------------------------------------------------------
(* Claims about the control panel, checked under SpecPanel *)

\* C2: the sidecar start button is disabled exactly when the sidecar status is
\* ACTIVE or UNKNOWN or the port form has unsaved edits; whatever polls and
\* edits came before, the start handler was only ever invoked from a state
\* with status INACTIVE or ERROR and a clean port form.
C2_SidecarStartGate ==
    /\ isPlayButtonDisabled <=>
          (sidecarStatus \in {"ACTIVE", "UNKNOWN"} \/ portValue # portDefault)
    /\ lastAction.button = "sidecarStart" =>
          /\ lastAction.sidecarStatus \in {"INACTIVE", "ERROR"}
          /\ ~lastAction.isDirty

\* the start handler was invoked from ERROR after the port had been edited and
\* saved under another value
C2_Witness ==
    /\ lastAction.button = "sidecarStart"
    /\ lastAction.sidecarStatus = "ERROR"
    /\ portDefault # toString(InitialSettings.embeddedLLM.port)

\* C3: the sidecar stop button is disabled exactly when the sidecar status is
\* INACTIVE, ERROR or UNKNOWN, whether or not the port form has unsaved edits;
\* the stop handler was only ever invoked while the status was ACTIVE.
C3_SidecarStopGate ==
    /\ isPauseButtonDisabled <=> sidecarStatus \in {"INACTIVE", "ERROR", "UNKNOWN"}
    /\ (sidecarStatus = "ACTIVE" /\ portValue # portDefault) => ~isPauseButtonDisabled
    /\ lastAction.button = "sidecarStop" => lastAction.sidecarStatus = "ACTIVE"

\* the stop handler was invoked while the port form had unsaved edits
C3_Witness ==
    /\ lastAction.button = "sidecarStop"
    /\ lastAction.sidecarStatus = "ACTIVE"
    /\ lastAction.isDirty

\* C4: the model start button is disabled exactly when the sidecar status is
\* not ACTIVE or the model status is RUNNING or ERROR; its handler was only
\* ever invoked with the sidecar ACTIVE and the model INACTIVE or UNKNOWN.
C4_ModelStartGate ==
    /\ playButtonDisabled <=>
          (sidecarStatus # "ACTIVE" \/ modelStatus \in {"RUNNING", "ERROR"})
    /\ ~playButtonDisabled =>
          (sidecarStatus = "ACTIVE" /\ modelStatus \in {"INACTIVE", "UNKNOWN"})
    /\ lastAction.button = "modelStart" =>
          /\ lastAction.sidecarStatus = "ACTIVE"
          /\ lastAction.modelStatus \in {"INACTIVE", "UNKNOWN"}

\* the model start handler was invoked while the model status was UNKNOWN
C4_Witness ==
    /\ lastAction.button = "modelStart"
    /\ lastAction.sidecarStatus = "ACTIVE"
    /\ lastAction.modelStatus = "UNKNOWN"

\* C5: the model stop button is disabled exactly when the sidecar status is
\* not ACTIVE or the model status is not RUNNING; its handler was only ever
\* invoked with the sidecar ACTIVE and the model RUNNING.
C5_ModelStopGate ==
    /\ pauseButtonDisabled <=> (sidecarStatus # "ACTIVE" \/ modelStatus # "RUNNING")
    /\ lastAction.button = "modelStop" =>
          /\ lastAction.sidecarStatus = "ACTIVE"
          /\ lastAction.modelStatus = "RUNNING"

\* the model stop handler was invoked, and the sidecar has stopped since
C5_Witness ==
    /\ lastAction.button = "modelStop"
    /\ lastAction.modelStatus = "RUNNING"
    /\ sidecarStatus # "ACTIVE"

\* C14: in every reachable state the sidecar status is one of INACTIVE, ACTIVE,
\* ERROR, UNKNOWN and the model status one of INACTIVE, RUNNING, ERROR,
\* UNKNOWN, and the status display has a text for the current value of each:
\* the two tooltipTexts tables have exactly these four keys.
C14_StatusTextsTotal ==
    /\ sidecarStatus \in {"INACTIVE", "ACTIVE", "ERROR", "UNKNOWN"}
    /\ modelStatus \in {"INACTIVE", "RUNNING", "ERROR", "UNKNOWN"}
    /\ sidecarStatus \in DOMAIN SidecarController_tooltipTexts
    /\ modelStatus \in DOMAIN ModelController_tooltipTexts
    /\ DOMAIN SidecarController_tooltipTexts = {"INACTIVE", "ACTIVE", "ERROR", "UNKNOWN"}
    /\ DOMAIN ModelController_tooltipTexts = {"INACTIVE", "RUNNING", "ERROR", "UNKNOWN"}

\* a poll has reported ERROR for the sidecar while the model status is still
\* the initial UNKNOWN, and a port other than the initial one is persisted
C14_Witness ==
    /\ sidecarStatus = "ERROR"
    /\ modelStatus = "UNKNOWN"
    /\ settings.embeddedLLM.port # InitialSettings.embeddedLLM.port

\* C15: whatever the sidecar status, the model status and the dirtiness of the
\* port form, the start and the stop button of the sidecar controller are
\* never both enabled, and neither are those of the model controller.
C15_StartStopExclusive ==
    /\ isPlayButtonDisabled \/ isPauseButtonDisabled
    /\ playButtonDisabled \/ pauseButtonDisabled

\* both stop buttons are the enabled ones, with unsaved port edits
C15_Witness ==
    /\ ~isPauseButtonDisabled
    /\ ~pauseButtonDisabled
    /\ isDirty

\* C16: with the sidecar in ERROR and a clean port form the sidecar start
\* button is enabled; with the model in ERROR both model buttons are disabled,
\* and no step taken while the model status is ERROR invokes a model handler.
C16_ErrorGatedAsymmetrically ==
    /\ []((sidecarStatus = "ERROR" /\ portValue = portDefault) => ~isPlayButtonDisabled)
    /\ [](modelStatus = "ERROR" => (playButtonDisabled /\ pauseButtonDisabled))
    /\ [][(modelStatus = "ERROR" /\ lastAction' # lastAction) =>
             lastAction'.button \in {"sidecarStart", "sidecarStop"}]_vars

\* the sidecar start handler was invoked from ERROR while the model was in
\* ERROR too
C16_Witness ==
    /\ lastAction.button = "sidecarStart"
    /\ lastAction.sidecarStatus = "ERROR"
    /\ lastAction.modelStatus = "ERROR"

\* C22: a save of the port form that completes calls the settings update
\* with embeddedLLM = {port: parseInt of the entered text in base 10, model:
\* the persisted model, enabled: true}, leaving every other key of the
\* settings, and then resets the form to the entered port, so the form is not
\* dirty and the start button is enabled when the status is INACTIVE or
\* ERROR; a save whose update fails leaves settings and form as they were, so
\* a dirty form stays dirty. Erasing the changes puts the form back on its
\* default port, not dirty, and leaves the settings alone.
C22_PortSaveAndErase ==
    /\ [][handleFormSubmit =>
            \/ /\ toasts'[1].title = "sidecar default port updated"
               /\ settings' =
                     [settings EXCEPT !.embeddedLLM =
                         [port |-> ParseInt(portValue),
                          model |-> settings.embeddedLLM.model,
                          enabled |-> TRUE]]
               /\ portValue' = portValue
               /\ portDefault' = portValue
               /\ ParseInt(portDefault') = settings'.embeddedLLM.port
               /\ ~isDirty'
               /\ sidecarStatus \in {"INACTIVE", "ERROR"} => ~isPlayButtonDisabled'
            \/ /\ toasts'[1].title = "form submission failed!"
               /\ settings' = settings
               /\ portValue' = portValue
               /\ portDefault' = portDefault
               /\ isDirty' = isDirty]_vars
    /\ [][resetForm =>
            /\ portValue' = portDefault
            /\ portDefault' = portDefault
            /\ ~isDirty'
            /\ settings' = settings]_vars

\* the text 1x was saved while the sidecar was INACTIVE: the persisted port
\* is 1, the sidecar is enabled, the form is clean and the start button is
\* enabled
C22_Witness ==
    /\ toasts # <<>>
    /\ toasts[1].title = "sidecar default port updated"
    /\ portDefault = <<"1", "x">>
    /\ portValue = portDefault
    /\ settings.embeddedLLM.port = 1
    /\ settings.embeddedLLM.enabled
    /\ settings.embeddedLLM.model = InitialSettings.embeddedLLM.model
    /\ sidecarStatus = "INACTIVE"
    /\ ~isPlayButtonDisabled

----------------------------------------------------------------------------
(* The provider setup form: RegularProviderSetupForm *)

\* the values a validated setup form hands to its submit callback
FormValues == [aiUrl : {"http://a", "http://b"}, aiModel : {"gpt-4o"}]

\* failed attempts after which a mutation is retried: the mutations set no
\* retry option and the QueryClient no default one
MutationRetry == 0

\* faulty variant: the form stays visible next to the login prompt
componentsVisibility_FormWithLogin ==
    IF aiProvider = "SCREENPIPE_CLOUD" /\ ~user
    THEN [showForm |-> TRUE, showLoginStep |-> TRUE]
    ELSE [showForm |-> TRUE, showLoginStep |-> FALSE]

\* componentsVisibility (useMemo over aiProvider and user)
componentsVisibility ==
    IF aiProvider = "SCREENPIPE_CLOUD" /\ ~user
    THEN [showForm |-> FALSE, showLoginStep |-> TRUE]
    ELSE [showForm |-> TRUE, showLoginStep |-> FALSE]

\* the <Form> element is rendered
FormRendered == data /\ componentsVisibility.showForm

\* the login prompt is rendered
LoginStepRendered == componentsVisibility.showLoginStep

\* the isDirty prop of the <Form>: !(aiProvider === settings.aiProviderType)
Form_isDirty == ~(aiProvider = settings.aiProviderType)

\* isLoading of the <Form>: one of the two mutations is pending
isLoading == pc \notin {"idle", "resolved", "rejected"}

\* faulty variant: the provider type is sent along for EMBEDDED as well
settingsUpdate_TypeInEmbedded(provider, values) ==
    IF provider # "EMBEDDED"
    THEN Spread(values, [aiProviderType |-> provider])
    ELSE [embeddedLLM |-> values, aiProviderType |-> provider]

\* faulty variant: the persisted provider type is sent instead of the selected one
settingsUpdate_KeepsType(provider, values) ==
    IF provider # "EMBEDDED"
    THEN Spread(values, [aiProviderType |-> settings.aiProviderType])
    ELSE [embeddedLLM |-> values]

\* the argument submitChanges passes to updateSettingsAsync
settingsUpdate(provider, values) ==
    IF provider # "EMBEDDED"
    THEN Spread(values, [aiProviderType |-> provider])
    ELSE [embeddedLLM |-> values]

\* an entry of the log: a mutation invoked or settled, or a collaborator called
Event(event, values) == [event |-> event, values |-> values]

\* faulty variant: a failed mutation is run once more before it is given up
AfterFailure_RetryOnce(retry, onError) ==
    IF failureCount < 1 THEN retry ELSE onError

\* where a mutation goes after its mutationFn threw: run it again while the
\* retry option allows, else its onError
AfterFailure(retry, onError) ==
    IF failureCount < MutationRetry THEN retry ELSE onError

\* the parent selects another provider (setAiProvider); the setup-form query
\* of the new key has cached data or none yet
SelectProvider ==
    /\ \E p \in AvailableAiProviders :
          /\ p # aiProvider
          /\ aiProvider' = p
    /\ data' \in BOOLEAN
    /\ UNCHANGED <<settings, toasts, user, AiProviders, pc, sub, failure,
                   failureCount, variables, log, panelVars, validationVars, onboardingVars, errorVars, shellVars>>

\* the setup-form query (getSetupFormAndPersistedValues) produces its data
QueryResolves ==
    /\ ~data
    /\ data' = TRUE
    /\ UNCHANGED <<settings, toasts, aiProvider, user, AiProviders, pc, sub,
                   failure, failureCount, variables, log, panelVars, validationVars, onboardingVars, errorVars, shellVars>>

\* the user logs in or out
UserChanges ==
    /\ user' = ~user
    /\ UNCHANGED <<settings, toasts, aiProvider, data, AiProviders, pc, sub,
                   failure, failureCount, variables, log, panelVars, validationVars, onboardingVars, errorVars, shellVars>>

\* faulty variant: the reset selects the provider the settings start with,
\* not the persisted one
onReset_ToInitial ==
    /\ FormRendered
    /\ aiProvider' = InitialSettings.aiProviderType
    /\ IF aiProvider' = aiProvider THEN data' = data ELSE data' \in BOOLEAN
    /\ UNCHANGED <<settings, toasts, user, AiProviders, pc, sub, failure,
                   failureCount, variables, log, panelVars, validationVars,
                   onboardingVars, errorVars, shellVars>>

\* onReset of the <Form>: setAiProvider(settings.aiProviderType)
onReset ==
    /\ FormRendered
    /\ aiProvider' = settings.aiProviderType
    /\ IF aiProvider' = aiProvider THEN data' = data ELSE data' \in BOOLEAN
    /\ UNCHANGED <<settings, toasts, user, AiProviders, pc, sub, failure,
                   failureCount, variables, log, panelVars, validationVars, onboardingVars, errorVars, shellVars>>

\* the form's submit handler calls submitChanges(values), which runs up to
\* its first await: the provider decides which mutation is started
submitChanges ==
    /\ FormRendered
    /\ ~isLoading
    /\ \E values \in FormValues :
          /\ sub' = [aiProvider |-> aiProvider, values |-> values]
          /\ IF aiProvider # "EMBEDDED"
             THEN /\ pc' = "credentialValidation"
                  /\ variables' = values
             ELSE /\ pc' = "updateSettingsAsync"
                  /\ variables' = settingsUpdate(aiProvider, values)
          /\ log' = <<Event(pc', variables')>>
    /\ toasts' = <<>>
    /\ failure' = NoError
    /\ failureCount' = 0
    /\ UNCHANGED <<settings, aiProvider, user, data, AiProviders, panelVars, validationVars, onboardingVars, errorVars, shellVars>>

\* faulty variant: a provider that defines no credentialValidation fails the
\* validation
credentialValidation_RequiresFunction ==
    /\ pc = "credentialValidation"
    /\ IF sub.aiProvider \in AiProviders
       THEN /\ log' = Append(log, Event("AiProviders.credentialValidation",
                                         variables))
            /\ \/ /\ pc' = "credentialValidation.onSuccess"
                  /\ UNCHANGED <<failure, failureCount>>
               \/ /\ \E m \in ErrorMessages : failure' = Error(m)
                  /\ failureCount' = failureCount + 1
                  /\ pc' = AfterFailure("credentialValidation",
                                        "credentialValidation.onError")
       ELSE /\ failure' = Error("")
            /\ failureCount' = failureCount + 1
            /\ pc' = AfterFailure("credentialValidation",
                                  "credentialValidation.onError")
            /\ UNCHANGED log
    /\ UNCHANGED <<settings, toasts, aiProvider, user, data, AiProviders, sub,
                   variables, panelVars, validationVars, onboardingVars, errorVars, shellVars>>

\* mutationFn of the credentialValidation mutation
credentialValidation ==
    /\ pc = "credentialValidation"
    /\ IF sub.aiProvider \in AiProviders
       THEN /\ log' = Append(log, Event("AiProviders.credentialValidation",
                                         variables))
            /\ \/ \* the provider's credentialValidation resolves
                  /\ pc' = "credentialValidation.onSuccess"
                  /\ UNCHANGED <<failure, failureCount>>
               \/ \* it throws e: throw new Error(e.message)
                  /\ \E m \in ErrorMessages : failure' = Error(m)
                  /\ failureCount' = failureCount + 1
                  /\ pc' = AfterFailure("credentialValidation",
                                        "credentialValidation.onError")
       ELSE \* the provider defines no credentialValidation
            /\ pc' = "credentialValidation.onSuccess"
            /\ UNCHANGED <<log, failure, failureCount>>
    /\ UNCHANGED <<settings, toasts, aiProvider, user, data, AiProviders, sub,
                   variables, panelVars, validationVars, onboardingVars, errorVars, shellVars>>

\* onSuccess of the credentialValidation mutation; mutateAsync resolves and
\* submitChanges goes on to updateSettingsAsync
credentialValidationOnSuccess ==
    /\ pc = "credentialValidation.onSuccess"
    /\ toasts' = Append(toasts, Toast("credential validation successful",
                                      NoDescription, "default"))
    /\ pc' = "updateSettingsAsync"
    /\ variables' = settingsUpdate(sub.aiProvider, sub.values)
    /\ log' = log \o <<Event("credentialValidation.resolved", <<>>),
                        Event("updateSettingsAsync", variables')>>
    /\ UNCHANGED <<settings, aiProvider, user, data, AiProviders, sub, failure,
                   failureCount, panelVars, validationVars, onboardingVars, errorVars, shellVars>>

\* faulty variant: submitChanges catches the rejection and goes on to the update
credentialValidationOnError_Continues ==
    /\ pc = "credentialValidation.onError"
    /\ toasts' = Append(toasts, Toast("credential validation failed!",
                                      ErrorDescription(failure.message),
                                      "destructive"))
    /\ pc' = "updateSettingsAsync"
    /\ variables' = settingsUpdate(sub.aiProvider, sub.values)
    /\ log' = log \o <<Event("credentialValidation.rejected", <<>>),
                        Event("updateSettingsAsync", variables')>>
    /\ UNCHANGED <<settings, aiProvider, user, data, AiProviders, sub, failure,
                   failureCount, panelVars, validationVars, onboardingVars, errorVars, shellVars>>

\* onError of the credentialValidation mutation; mutateAsync rejects, and the
\* await in submitChanges, which has no try/catch, rejects submitChanges
credentialValidationOnError ==
    /\ pc = "credentialValidation.onError"
    /\ toasts' = Append(toasts, Toast("credential validation failed!",
                                      ErrorDescription(failure.message),
                                      "destructive"))
    /\ pc' = "rejected"
    /\ log' = Append(log, Event("credentialValidation.rejected", <<>>))
    /\ UNCHANGED <<settings, aiProvider, user, data, AiProviders, sub, failure,
                   failureCount, variables, panelVars, validationVars, onboardingVars, errorVars, shellVars>>

\* faulty variant: the catch of the mutationFn swallows the error of updateSettings
updateSettingsAsync_Swallows ==
    /\ pc = "updateSettingsAsync"
    /\ log' = Append(log, Event("updateSettings", variables))
    /\ \/ /\ settings' = updateSettings(variables)
          /\ UNCHANGED <<failure, failureCount>>
       \/ /\ \E m \in ErrorMessages : failure' = Error(m)
          /\ failureCount' = failureCount + 1
          /\ UNCHANGED settings
    /\ pc' = "updateSettingsAsync.onSuccess"
    /\ UNCHANGED <<toasts, aiProvider, user, data, AiProviders, sub, variables,
                   panelVars, validationVars, onboardingVars, errorVars, shellVars>>

\* mutationFn of the updateSettingsAsync mutation
updateSettingsAsync ==
    /\ pc = "updateSettingsAsync"
    /\ LET values == variables
       IN  /\ log' = Append(log, Event("updateSettings", values))
           /\ \/ \* updateSettings returns
                 /\ settings' = updateSettings(values)
                 /\ pc' = "updateSettingsAsync.onSuccess"
                 /\ UNCHANGED <<failure, failureCount>>
              \/ \* updateSettings throws e: throw new Error(e.message)
                 /\ \E m \in ErrorMessages : failure' = Error(m)
                 /\ failureCount' = failureCount + 1
                 /\ pc' = AfterFailure("updateSettingsAsync",
                                       "updateSettingsAsync.onError")
                 /\ UNCHANGED settings
    /\ UNCHANGED <<toasts, aiProvider, user, data, AiProviders, sub, variables,
                   panelVars, validationVars, onboardingVars, errorVars, shellVars>>

\* onSuccess of the updateSettingsAsync mutation; submitChanges resolves
updateSettingsAsyncOnSuccess ==
    /\ pc = "updateSettingsAsync.onSuccess"
    /\ toasts' = Append(toasts, Toast("ai provider info updated",
                                      NoDescription, "default"))
    /\ pc' = "resolved"
    /\ log' = Append(log, Event("updateSettingsAsync.resolved", <<>>))
    /\ UNCHANGED <<settings, aiProvider, user, data, AiProviders, sub, failure,
                   failureCount, variables, panelVars, validationVars, onboardingVars, errorVars, shellVars>>

\* faulty variant: submitChanges catches the rejection and returns normally
updateSettingsAsyncOnError_Caught ==
    /\ pc = "updateSettingsAsync.onError"
    /\ toasts' = Append(toasts, Toast("ai provider update failed!",
                                      ErrorDescription(failure.message),
                                      "destructive"))
    /\ pc' = "resolved"
    /\ log' = Append(log, Event("updateSettingsAsync.rejected", <<>>))
    /\ UNCHANGED <<settings, aiProvider, user, data, AiProviders, sub, failure,
                   failureCount, variables, panelVars, validationVars, onboardingVars, errorVars, shellVars>>

\* onError of the updateSettingsAsync mutation; submitChanges rejects
updateSettingsAsyncOnError ==
    /\ pc = "updateSettingsAsync.onError"
    /\ toasts' = Append(toasts, Toast("ai provider update failed!",
                                      ErrorDescription(failure.message),
                                      "destructive"))
    /\ pc' = "rejected"
    /\ log' = Append(log, Event("updateSettingsAsync.rejected", <<>>))
    /\ UNCHANGED <<settings, aiProvider, user, data, AiProviders, sub, failure,
                   failureCount, variables, panelVars, validationVars, onboardingVars, errorVars, shellVars>>

\* the panel's variables while the provider setup form is the view shown
PanelIdle ==
    /\ sidecarStatus = "UNKNOWN"
    /\ modelStatus = "UNKNOWN"
    /\ portValue = toString(InitialSettings.embeddedLLM.port)
    /\ portDefault = toString(InitialSettings.embeddedLLM.port)
    /\ lastAction = NoAction

InitForm ==
    /\ \E p \in AvailableAiProviders :
          settings = [InitialSettings EXCEPT !.aiProviderType = p]
    /\ toasts = <<>>
    /\ aiProvider = settings.aiProviderType
    /\ user \in BOOLEAN
    /\ data = FALSE
    /\ AiProviders \in SUBSET AvailableAiProviders
    /\ pc = "idle"
    /\ sub = [aiProvider |-> aiProvider, values |-> <<>>]
    /\ failure = NoError
    /\ failureCount = 0
    /\ variables = <<>>
    /\ log = <<>>
    /\ PanelIdle
    /\ ValidationIdle
    /\ OnboardingIdle
    /\ ErrorIdle
    /\ ShellIdle

NextForm ==
    \/ SelectProvider
    \/ QueryResolves
    \/ UserChanges
    \/ onReset
    \/ submitChanges
    \/ credentialValidation
    \/ credentialValidationOnSuccess
    \/ credentialValidationOnError
    \/ updateSettingsAsync
    \/ updateSettingsAsyncOnSuccess
    \/ updateSettingsAsyncOnError

SpecForm == InitForm /\ [][NextForm]_vars

----------------------------------------------------------------------------
(* Claims about the provider setup form, checked under SpecForm *)

\* the positions of the log holding the given event
Positions(event) == {i \in 1..Len(log) : log[i].event = event}
Has(event) == Positions(event) # {}
Count(event) == Cardinality(Positions(event))
\* every occurrence of event b comes after an occurrence of event a
Precedes(a, b) == \A j \in Positions(b) : \E i \in Positions(a) : i < j
TitlesShown == {toasts[i].title : i \in 1..Len(toasts)}

\* C1: in a submission for a provider other than EMBEDDED the credential
\* validation is invoked first and has resolved before the settings update is
\* invoked; a submission whose credential validation failed never invokes the
\* settings update, and the persisted settings change only in a step that
\* calls updateSettings, so they stay as they were in such a submission.
C1_ValidationGatesUpdate ==
    /\ []((sub.aiProvider # "EMBEDDED" /\ log # <<>>) =>
            /\ log[1].event = "credentialValidation"
            /\ Precedes("credentialValidation.resolved", "updateSettingsAsync")
            /\ Precedes("credentialValidation.resolved", "updateSettings")
            /\ Has("credentialValidation.rejected") =>
                  /\ ~Has("updateSettingsAsync")
                  /\ ~Has("updateSettings")
                  /\ ~Has("credentialValidation.resolved"))
    /\ [][settings' # settings =>
            /\ ~Has("credentialValidation.rejected")
            /\ log' = Append(log, Event("updateSettings", variables))]_vars

\* the provider's credential validation was called and failed, and the
\* submission was rejected
C1_Witness ==
    /\ pc = "rejected"
    /\ sub.aiProvider = "CUSTOM"
    /\ Has("AiProviders.credentialValidation")
    /\ Has("credentialValidation.rejected")

C7_Original == (failure.thrown /\ ~isLoading) => pc = "resolved"

\* C7 as amended: an error raised by the credential validation or by the
\* settings update is reported by its mutation's destructive notification and
\* then leaves submitChanges: the submission settles rejected, with no step
\* after the notification, and it settles resolved only if nothing threw.
C7_ErrorRejectsSubmit ==
    /\ (failure.thrown /\ ~isLoading) =>
          /\ pc = "rejected"
          /\ toasts # <<>>
          /\ toasts[Len(toasts)].variant = "destructive"
          /\ log[Len(log)].event \in {"credentialValidation.rejected",
                                      "updateSettingsAsync.rejected"}
    /\ pc = "rejected" => failure.thrown
    /\ pc = "resolved" => ~failure.thrown

\* the settings update threw after the credential validation had passed
C7_Witness ==
    /\ pc = "rejected"
    /\ failure.thrown
    /\ Has("credentialValidation.resolved")
    /\ Has("updateSettingsAsync.rejected")

\* C8: every settings update invoked shows exactly one notification once it
\* has settled, 'ai provider info updated' or 'ai provider update failed!',
\* and none before; the success one is shown only if updateSettings was
\* called and nothing threw, the failure one only if something threw.
C8_OneUpdateNotification ==
    LET updateToasts == {i \in 1..Len(toasts) : toasts[i].title \in
                            {"ai provider info updated", "ai provider update failed!"}}
        settled == Has("updateSettingsAsync.resolved") \/ Has("updateSettingsAsync.rejected")
    IN  /\ Cardinality(updateToasts) = IF settled THEN Count("updateSettingsAsync") ELSE 0
        /\ Count("updateSettingsAsync") <= 1
        /\ "ai provider info updated" \in TitlesShown =>
              /\ Has("updateSettings")
              /\ ~failure.thrown
              /\ \A k \in DOMAIN variables : settings[k] = variables[k]
        /\ "ai provider update failed!" \in TitlesShown =>
              /\ failure.thrown
              /\ Has("updateSettingsAsync.rejected")

\* updateSettings threw and the failure notification was shown
C8_Witness ==
    /\ "ai provider update failed!" \in TitlesShown
    /\ "credential validation successful" \in TitlesShown
    /\ pc = "rejected"

\* C9: when the credential validation has failed, the notifications of the
\* submission are exactly one destructive 'credential validation failed!'
\* whose description is the error's message, or 'please try again.' when the
\* message is empty.
C9_ValidationFailureNotification ==
    Has("credentialValidation.rejected") =>
        toasts = <<[title |-> "credential validation failed!",
                    description |-> IF failure.message = ""
                                    THEN "please try again."
                                    ELSE failure.message,
                    variant |-> "destructive"]>>

\* the credential validation failed with an error that has no message
C9_Witness ==
    /\ Has("credentialValidation.rejected")
    /\ failure.thrown
    /\ failure.message = ""

\* C10: a submission calls the provider's credential validation at most once
\* and updateSettings at most once, a mutation that threw is not run again,
\* and once a submission is rejected nothing more is logged until the next
\* submitChanges.
C10_NoAutomaticRetry ==
    /\ [](/\ Count("credentialValidation") <= 1
          /\ Count("AiProviders.credentialValidation") <= 1
          /\ Count("updateSettingsAsync") <= 1
          /\ Count("updateSettings") <= 1
          /\ failureCount <= 1
          /\ failure.thrown => pc \in {"credentialValidation.onError",
                                       "updateSettingsAsync.onError", "rejected"})
    /\ [][(pc = "rejected" /\ <<log, settings, toasts>>' # <<log, settings, toasts>>)
            => submitChanges]_vars

\* the credential validation was called and passed, updateSettings was called
\* once and threw, and the submission is rejected
C10_Witness ==
    /\ pc = "rejected"
    /\ Count("AiProviders.credentialValidation") = 1
    /\ Count("updateSettings") = 1
    /\ failureCount = 1

\* the events of the credential validation step
ValidationEvents ==
    {"credentialValidation", "AiProviders.credentialValidation",
     "credentialValidation.resolved", "credentialValidation.rejected"}

\* C17: a submission for the EMBEDDED provider never invokes credential
\* validation (whether or not the provider defines one) and shows none of
\* its notifications; it starts with the settings update, whose argument has
\* the single key embeddedLLM holding the submitted values, so aiProviderType
\* and every other key are left out.
C17_EmbeddedSkipsValidation ==
    (sub.aiProvider = "EMBEDDED" /\ log # <<>>) =>
        /\ \A i \in 1..Len(log) : log[i].event \notin ValidationEvents
        /\ TitlesShown \cap {"credential validation successful",
                             "credential validation failed!"} = {}
        /\ log[1].event = "updateSettingsAsync"
        /\ \A i \in Positions("updateSettingsAsync") \cup Positions("updateSettings") :
              /\ DOMAIN log[i].values = {"embeddedLLM"}
              /\ log[i].values.embeddedLLM = sub.values

\* an EMBEDDED submission succeeded although the provider defines a
\* credentialValidation
C17_Witness ==
    /\ sub.aiProvider = "EMBEDDED"
    /\ "EMBEDDED" \in AiProviders
    /\ pc = "resolved"
    /\ Has("updateSettings")

\* C18: in a submission for a provider other than EMBEDDED that defines no
\* credentialValidation, the validation step makes no external call and never
\* fails: it goes to its onSuccess, the 'credential validation successful'
\* notification is shown, and the submission goes on to the settings update.
C18_NoValidatorSucceeds ==
    /\ []((sub.aiProvider # "EMBEDDED" /\ sub.aiProvider \notin AiProviders
           /\ log # <<>>) =>
            /\ ~Has("AiProviders.credentialValidation")
            /\ ~Has("credentialValidation.rejected")
            /\ "credential validation failed!" \notin TitlesShown
            /\ pc \notin {"credentialValidation", "credentialValidation.onSuccess"} =>
                  /\ "credential validation successful" \in TitlesShown
                  /\ Precedes("credentialValidation.resolved", "updateSettingsAsync")
                  /\ Has("updateSettingsAsync"))
    /\ [][(pc = "credentialValidation" /\ sub.aiProvider \notin AiProviders
           /\ pc' # pc) =>
             /\ pc' = "credentialValidation.onSuccess"
             /\ log' = log]_vars

\* a submission for CUSTOM, which defines no credentialValidation, went
\* through to a successful settings update
C18_Witness ==
    /\ sub.aiProvider = "CUSTOM"
    /\ "CUSTOM" \notin AiProviders
    /\ pc = "resolved"
    /\ "credential validation successful" \in TitlesShown
    /\ Has("updateSettings")

\* C19: the login prompt is shown exactly when the selected provider is
\* SCREENPIPE_CLOUD and no user is present; while it is shown the setup form
\* is not, so the two are never both visible; the form is shown only when the
\* setup-form query has data.
C19_LoginXorForm ==
    /\ LoginStepRendered <=> (aiProvider = "SCREENPIPE_CLOUD" /\ ~user)
    /\ LoginStepRendered => ~FormRendered
    /\ ~(LoginStepRendered /\ FormRendered)
    /\ FormRendered => data
    /\ FormRendered <=> (data /\ ~(aiProvider = "SCREENPIPE_CLOUD" /\ ~user))

\* the login prompt is shown although the query of the setup form has data
C19_Witness ==
    /\ aiProvider = "SCREENPIPE_CLOUD"
    /\ ~user
    /\ data
    /\ LoginStepRendered

\* the step in which the settings update of a submission for a provider
\* other than EMBEDDED is persisted
PersistsProvider ==
    /\ pc = "updateSettingsAsync"
    /\ pc' = "updateSettingsAsync.onSuccess"
    /\ sub.aiProvider # "EMBEDDED"

\* C20 as stated: the form is dirty exactly when the selected provider
\* differs from the persisted one, and after a reset as after a successful
\* submission for a provider other than EMBEDDED the two are equal and the
\* form is not dirty.
C20_Original ==
    /\ [](Form_isDirty <=> aiProvider # settings.aiProviderType)
    /\ [][onReset => (aiProvider' = settings'.aiProviderType /\ ~Form_isDirty')]_vars
    /\ [][PersistsProvider =>
            (aiProvider' = settings'.aiProviderType /\ ~Form_isDirty')]_vars

\* C20: the form is dirty exactly when the selected provider differs from the
\* persisted one; after a reset the two are equal and the form is not dirty;
\* a successful submission for a provider other than EMBEDDED persists the
\* provider it was made for, so the form is not dirty after it when the
\* selection is still that provider.
C20_DirtyTracksProvider ==
    /\ [](Form_isDirty <=> aiProvider # settings.aiProviderType)
    /\ [][onReset => (aiProvider' = settings'.aiProviderType /\ ~Form_isDirty')]_vars
    /\ [][PersistsProvider =>
            /\ settings'.aiProviderType = sub.aiProvider
            /\ aiProvider' = sub.aiProvider =>
                  (aiProvider' = settings'.aiProviderType /\ ~Form_isDirty')]_vars

\* a submission for SCREENPIPE_CLOUD has just persisted it while it is still
\* the selected provider: the form is not dirty
C20_Witness ==
    /\ pc = "updateSettingsAsync.onSuccess"
    /\ sub.aiProvider = "SCREENPIPE_CLOUD"
    /\ variables.aiProviderType = "SCREENPIPE_CLOUD"
    /\ settings.aiProviderType = "SCREENPIPE_CLOUD"
    /\ aiProvider = "SCREENPIPE_CLOUD"
    /\ ~Form_isDirty

----------------------------------------------------------------------------
(* The generated setup form of the custom provider: Form over CustomSetupForm *)

\* the message a field is rejected with: its descriptor's errorMessage, or
\* the validator's own where the descriptor gives none
ErrorMessageOf(field) ==
    IF "errorMessage" \in DOMAIN field.validationMeta
    THEN field.validationMeta.errorMessage
    ELSE "Required"

\* the field's value is a text
IsText(field) == field.typeMeta.type \in {"STRING", "TEXTAREA", "SELECT_CREATEABLE"}

\* the rule generated from one field descriptor, applied to a value: a
\* required field rejects the empty value, an optional one accepts it, and a
\* text must keep to the descriptor's min and max length
FieldError(field, v) ==
    LET meta == field.validationMeta
    IN  IF v = <<>>
        THEN IF meta.optional THEN NoFieldError ELSE ErrorMessageOf(field)
        ELSE IF IsText(field) /\ "min" \in DOMAIN meta /\ Len(v) < meta.min
        THEN ErrorMessageOf(field)
        ELSE IF IsText(field) /\ "max" \in DOMAIN meta /\ Len(v) > meta.max
        THEN ErrorMessageOf(field)
        ELSE NoFieldError

\* the descriptor with the given key
FieldOf(fs, k) == fs[CHOOSE i \in DOMAIN fs : fs[i].key = k]

\* generateFormSchema(fs), applied to the form's values: the error of every
\* field
generateFormSchema(fs, values) ==
    [k \in FieldKeys(fs) |-> FieldError(FieldOf(fs, k), values[k])]

\* the longest text the model types into a field
InputLimit(k) == IF k = "aiUrl" THEN MaxUrlLen ELSE MaxTextLen

\* the user types a character into a text field
TypeChar ==
    /\ \E k \in FieldKeys(fields) :
          /\ IsText(FieldOf(fields, k))
          /\ Len(fieldValues[k]) < InputLimit(k)
          /\ fieldValues' = [fieldValues EXCEPT ![k] = Append(@, "a")]
    /\ UNCHANGED <<settings, toasts, defaultValues, lastSubmit, panelVars,
                   formVars, onboardingVars, errorVars, shellVars>>

\* the user deletes the last character of a text field
DeleteChar ==
    /\ \E k \in FieldKeys(fields) :
          /\ IsText(FieldOf(fields, k))
          /\ fieldValues[k] # <<>>
          /\ fieldValues' = [fieldValues EXCEPT ![k] = SubSeq(@, 1, Len(@) - 1)]
    /\ UNCHANGED <<settings, toasts, defaultValues, lastSubmit, panelVars,
                   formVars, onboardingVars, errorVars, shellVars>>

\* the user moves a slider, which gives the field a number
MoveSlider ==
    /\ \E k \in FieldKeys(fields) :
          /\ FieldOf(fields, k).typeMeta.type = "SLIDER"
          /\ \E n \in {512} : fieldValues' = [fieldValues EXCEPT ![k] = <<n>>]
    /\ UNCHANGED <<settings, toasts, defaultValues, lastSubmit, panelVars,
                   formVars, onboardingVars, errorVars, shellVars>>

\* Form.resetForm with the handle present and no onReset given: the form goes
\* back to its default values
ResetToDefaults ==
    /\ fieldValues' = defaultValues
    /\ UNCHANGED <<settings, toasts, defaultValues, lastSubmit, panelVars,
                   formVars, onboardingVars, errorVars, shellVars>>

\* the submit button: the form renderer validates the values against the
\* generated schema and calls onSubmit (Form.handleSubmit) only when no field
\* has an error; Form.handleSubmit hands the values to the submit callback
\* and then makes them the form's default values. The callback resolves at
\* once here; the await, a callback that rejects and an absent handle are
\* followed step by step in Form_handleSubmit
Submit ==
    /\ LET errors == generateFormSchema(CustomSetupForm.fields, fieldValues)
           valid == \A k \in DOMAIN errors : errors[k] = NoFieldError
       IN  /\ lastSubmit' = [validated |-> TRUE, errors |-> errors,
                             invoked |-> valid]
           /\ defaultValues' = IF valid THEN fieldValues ELSE defaultValues
    /\ UNCHANGED <<settings, toasts, fieldValues, panelVars, formVars,
                   onboardingVars, errorVars, shellVars>>

InitValidation ==
    /\ ValidationIdle
    /\ settings = InitialSettings
    /\ toasts = <<>>
    /\ PanelIdle
    /\ FormIdle
    /\ OnboardingIdle
    /\ ErrorIdle
    /\ ShellIdle

NextValidation ==
    \/ TypeChar
    \/ DeleteChar
    \/ MoveSlider
    \/ ResetToDefaults
    \/ Submit

SpecValidation == InitValidation /\ [][NextValidation]_vars

----------------------------------------------------------------------------
(* Claims about the generated setup form, checked under SpecValidation *)

\* the fields that hold nothing
EmptyFields == {k \in FieldKeys(fields) : fieldValues[k] = <<>>}

----------------------------------------------------------------------------
(* The onboarding flow: OnboardingProvider *)

\* the position of a slide in the ordered sequence
SlideIndex(slide) == CHOOSE i \in DOMAIN slideFlow : slideFlow[i] = slide

\* the slide after and the slide before a slide; the last slide has no
\* successor and the first no predecessor, and the flow stays on them
NextSlideOf(slide) ==
    IF SlideIndex(slide) < Len(slideFlow)
    THEN slideFlow[SlideIndex(slide) + 1]
    ELSE slide
PrevSlideOf(slide) ==
    IF SlideIndex(slide) > 1
    THEN slideFlow[SlideIndex(slide) - 1]
    ELSE slide

\* setSelectedOptions, setSelectedPreference, setSelectedPersonalization
setSelectedOptions ==
    /\ \E options \in SUBSET OnboardingOptions :
          /\ options # selectedOptions
          /\ selectedOptions' = options
    /\ UNCHANGED <<settings, toasts, currentSlide, restartPending,
                   selectedPreference, selectedPersonalization,
                   showOnboarding, panelVars, formVars, validationVars, errorVars, shellVars>>

setSelectedPreference ==
    /\ \E preference \in OnboardingPreferences \cup {Null} :
          /\ preference # selectedPreference
          /\ selectedPreference' = preference
    /\ UNCHANGED <<settings, toasts, currentSlide, restartPending,
                   selectedOptions, selectedPersonalization, showOnboarding,
                   panelVars, formVars, validationVars, errorVars, shellVars>>

setSelectedPersonalization ==
    /\ \E personalization \in OnboardingPersonalizations \cup {Null} :
          /\ personalization # selectedPersonalization
          /\ selectedPersonalization' = personalization
    /\ UNCHANGED <<settings, toasts, currentSlide, restartPending,
                   selectedOptions, selectedPreference, showOnboarding,
                   panelVars, formVars, validationVars, errorVars, shellVars>>

\* faulty variant: with the devMode preference the next slide is skipped
handleNextSlide_Branches ==
    /\ currentSlide' =
          IF selectedPreference = "devMode"
          THEN NextSlideOf(NextSlideOf(currentSlide))
          ELSE NextSlideOf(currentSlide)
    /\ UNCHANGED <<settings, toasts, restartPending, selectedOptions,
                   selectedPreference, selectedPersonalization,
                   showOnboarding, panelVars, formVars, validationVars, errorVars, shellVars>>

\* handleNextSlide: linear advancement
handleNextSlide ==
    /\ currentSlide' = NextSlideOf(currentSlide)
    /\ UNCHANGED <<settings, toasts, restartPending, selectedOptions,
                   selectedPreference, selectedPersonalization,
                   showOnboarding, panelVars, formVars, validationVars, errorVars, shellVars>>

\* handlePrevSlide
handlePrevSlide ==
    /\ currentSlide' = PrevSlideOf(currentSlide)
    /\ UNCHANGED <<settings, toasts, restartPending, selectedOptions,
                   selectedPreference, selectedPersonalization,
                   showOnboarding, panelVars, formVars, validationVars, errorVars, shellVars>>

\* skipOnboarding and completeOnboarding both close the onboarding
skipOnboarding ==
    /\ showOnboarding
    /\ showOnboarding' = FALSE
    /\ UNCHANGED <<settings, toasts, currentSlide, restartPending,
                   selectedOptions, selectedPreference,
                   selectedPersonalization, panelVars, formVars,
                   validationVars, errorVars, shellVars>>

completeOnboarding ==
    /\ showOnboarding
    /\ showOnboarding' = FALSE
    /\ UNCHANGED <<settings, toasts, currentSlide, restartPending,
                   selectedOptions, selectedPreference,
                   selectedPersonalization, panelVars, formVars,
                   validationVars, errorVars, shellVars>>

setShowOnboardingToTrue ==
    /\ ~showOnboarding
    /\ showOnboarding' = TRUE
    /\ UNCHANGED <<settings, toasts, currentSlide, restartPending,
                   selectedOptions, selectedPreference,
                   selectedPersonalization, panelVars, formVars,
                   validationVars, errorVars, shellVars>>

\* setRestartPending: the restart flag is raised
setRestartPending ==
    /\ ~restartPending
    /\ restartPending' = TRUE
    /\ UNCHANGED <<settings, toasts, currentSlide, selectedOptions,
                   selectedPreference, selectedPersonalization,
                   showOnboarding, panelVars, formVars, validationVars, errorVars, shellVars>>

\* the application comes back from the pending restart: the flag is cleared
\* and the flow resumes on a slide of the sequence (which one is not
\* specified)
ResumeAfterRestart ==
    /\ restartPending
    /\ restartPending' = FALSE
    /\ \E i \in DOMAIN slideFlow : currentSlide' = slideFlow[i]
    /\ UNCHANGED <<settings, toasts, selectedOptions, selectedPreference,
                   selectedPersonalization, showOnboarding, panelVars,
                   formVars, validationVars, errorVars, shellVars>>

InitOnboarding ==
    /\ currentSlide = slideFlow[1]
    /\ restartPending = FALSE
    /\ selectedOptions = {}
    /\ selectedPreference = Null
    /\ selectedPersonalization = Null
    /\ showOnboarding = TRUE
    /\ settings = InitialSettings
    /\ toasts = <<>>
    /\ PanelIdle
    /\ FormIdle
    /\ ValidationIdle
    /\ ErrorIdle
    /\ ShellIdle

NextOnboarding ==
    \/ setSelectedOptions
    \/ setSelectedPreference
    \/ setSelectedPersonalization
    \/ handleNextSlide
    \/ handlePrevSlide
    \/ skipOnboarding
    \/ completeOnboarding
    \/ setShowOnboardingToTrue
    \/ setRestartPending
    \/ ResumeAfterRestart

SpecOnboarding == InitOnboarding /\ [][NextOnboarding]_vars

----------------------------------------------------------------------------
(* Claims about the onboarding flow, checked under SpecOnboarding *)

----------------------------------------------------------------------------
(* handleError of the command line *)

\* the values handleError is called with. A ZodError holds its issues, each
\* with a path (empty for an error of the whole form) and a message
ErrorTexts == {"", "boom"}
IssuePaths == {<<>>, <<"name">>, <<"port">>}
IssueMessages == {"Required", "Invalid"}
ZodIssues == [path : IssuePaths, message : IssueMessages]
BoundedSeq(S, n) == UNION {[1..k -> S] : k \in 0..n}
ErrorInputs ==
    [type : {"string"}, value : ErrorTexts]
    \cup [type : {"ZodError"}, issues : BoundedSeq(ZodIssues, MaxIssues)]
    \cup [type : {"Error"}, message : ErrorTexts]
    \cup [type : {"undefined", "number", "object"}]

\* typeof error === "string", error instanceof z.ZodError, error instanceof
\* Error (a ZodError is an Error)
IsString(e) == e.type = "string"
IsZodError(e) == e.type = "ZodError"
IsError(e) == e.type \in {"Error", "ZodError"}

\* error.message; that of a ZodError is the text of its issues
RECURSIVE IssuesText(_)
IssuesText(issues) ==
    IF issues = <<>> THEN <<>>
    ELSE <<"{path:">> \o Head(issues).path \o <<"message:", Head(issues).message, "}">>
         \o IssuesText(Tail(issues))
MessageOf(e) ==
    IF IsZodError(e) THEN <<"[">> \o IssuesText(e.issues) \o <<"]">>
    ELSE <<e.message>>

\* error.flatten().fieldErrors as Object.entries lists it: the fields in the
\* order in which the issues first name them, each with its messages
RECURSIVE FieldOrder(_, _)
FieldOrder(issues, seen) ==
    IF issues = <<>> THEN <<>>
    ELSE LET path == Head(issues).path
         IN  IF path = <<>> \/ path[1] \in seen
             THEN FieldOrder(Tail(issues), seen)
             ELSE <<path[1]>> \o FieldOrder(Tail(issues), seen \cup {path[1]})
RECURSIVE MessagesOf(_, _)
MessagesOf(issues, key) ==
    IF issues = <<>> THEN <<>>
    ELSE (IF Head(issues).path # <<>> /\ Head(issues).path[1] = key
          THEN <<Head(issues).message>> ELSE <<>>)
         \o MessagesOf(Tail(issues), key)
fieldErrors(e) ==
    LET keys == FieldOrder(e.issues, {})
    IN  [i \in 1..Len(keys) |-> [key |-> keys[i],
                                 value |-> MessagesOf(e.issues, keys[i])]]

\* `${value}` of an array: its elements joined by commas
RECURSIVE ArrayToString(_)
ArrayToString(array) ==
    IF array = <<>> THEN <<>>
    ELSE IF Len(array) = 1 THEN <<array[1]>>
    ELSE <<array[1], ",">> \o ArrayToString(Tail(array))

\* highlighter.info(text): the text in the info colour
highlighter_info(text) == <<"<info>", text, "</info>">>

\* what the logger writes: logger.error(text) and logger.break()
ErrorLine(text) == [level |-> "error", text |-> text]
BreakLine == [level |-> "break", text |-> <<>>]

\* the three lines handleError starts with
HeaderLines ==
    <<ErrorLine(<<"Something went wrong. Please check the error below for more details.">>),
      ErrorLine(<<"If the problem persists, please open an issue on GitHub.">>),
      ErrorLine(<<"">>)>>

\* faulty variant: the Error branch comes before the ZodError branch
Branch_ErrorFirst(e) ==
    IF IsString(e) THEN "string"
    ELSE IF IsError(e) THEN "Error"
    ELSE IF IsZodError(e) THEN "ZodError"
    ELSE "none"

\* the if statement of handleError whose condition is the first to hold
Branch(e) ==
    IF IsString(e) THEN "string"
    ELSE IF IsZodError(e) THEN "ZodError"
    ELSE IF IsError(e) THEN "Error"
    ELSE "none"

\* process.exit(1)
Exit(code) == [exited |-> TRUE, code |-> code]

\* handleError is entered: the two generic lines and an empty one are logged
LogHeader ==
    /\ hpc = "start"
    /\ logged' = logged \o HeaderLines
    /\ hpc' = "branch"
    /\ UNCHANGED <<settings, toasts, error, entry, process, panelVars,
                   formVars, validationVars, onboardingVars, shellVars>>

\* typeof error === "string": the string is logged and the process exits
StringBranch ==
    /\ hpc = "branch"
    /\ Branch(error) = "string"
    /\ logged' = logged \o <<ErrorLine(<<error.value>>), BreakLine>>
    /\ process' = Exit(1)
    /\ hpc' = "exited"
    /\ UNCHANGED <<settings, toasts, error, entry, panelVars, formVars,
                   validationVars, onboardingVars, shellVars>>

\* error instanceof z.ZodError: the heading is logged and the loop over the
\* field errors starts
ZodErrorBranch ==
    /\ hpc = "branch"
    /\ Branch(error) = "ZodError"
    /\ logged' = Append(logged, ErrorLine(<<"Validation failed:">>))
    /\ entry' = 1
    /\ hpc' = "fieldErrors"
    /\ UNCHANGED <<settings, toasts, error, process, panelVars, formVars,
                   validationVars, onboardingVars, shellVars>>

\* one turn of the loop: the line of one field
FieldErrorLine ==
    /\ hpc = "fieldErrors"
    /\ entry <= Len(fieldErrors(error))
    /\ LET key == fieldErrors(error)[entry].key
           value == fieldErrors(error)[entry].value
       IN  logged' = Append(logged,
                            ErrorLine(<<"- ">> \o highlighter_info(key)
                                      \o <<": ">> \o ArrayToString(value)))
    /\ entry' = entry + 1
    /\ UNCHANGED <<settings, toasts, error, hpc, process, panelVars, formVars,
                   validationVars, onboardingVars, shellVars>>

\* the loop is over: the process exits
FieldErrorsDone ==
    /\ hpc = "fieldErrors"
    /\ entry > Len(fieldErrors(error))
    /\ logged' = Append(logged, BreakLine)
    /\ process' = Exit(1)
    /\ hpc' = "exited"
    /\ UNCHANGED <<settings, toasts, error, entry, panelVars, formVars,
                   validationVars, onboardingVars, shellVars>>

\* error instanceof Error: its message is logged and the process exits
ErrorBranch ==
    /\ hpc = "branch"
    /\ Branch(error) = "Error"
    /\ logged' = logged \o <<ErrorLine(MessageOf(error)), BreakLine>>
    /\ process' = Exit(1)
    /\ hpc' = "exited"
    /\ UNCHANGED <<settings, toasts, error, entry, panelVars, formVars,
                   validationVars, onboardingVars, shellVars>>

\* none of the three: the process exits
NoBranch ==
    /\ hpc = "branch"
    /\ Branch(error) = "none"
    /\ logged' = Append(logged, BreakLine)
    /\ process' = Exit(1)
    /\ hpc' = "exited"
    /\ UNCHANGED <<settings, toasts, error, entry, panelVars, formVars,
                   validationVars, onboardingVars, shellVars>>

InitHandleError ==
    /\ error \in ErrorInputs
    /\ hpc = "start"
    /\ entry = 1
    /\ logged = <<>>
    /\ process = [exited |-> FALSE, code |-> 0]
    /\ settings = InitialSettings
    /\ toasts = <<>>
    /\ PanelIdle
    /\ FormIdle
    /\ ValidationIdle
    /\ OnboardingIdle
    /\ ShellIdle

NextHandleError ==
    \/ LogHeader
    \/ StringBranch
    \/ ZodErrorBranch
    \/ FieldErrorLine
    \/ FieldErrorsDone
    \/ ErrorBranch
    \/ NoBranch

SpecHandleError == InitHandleError /\ [][NextHandleError]_vars

----------------------------------------------------------------------------
(* Claims about handleError, checked under SpecHandleError *)

\* the fields the issues of a ZodError name
NamedFields(e) ==
    {e.issues[i].path[1] : i \in {j \in DOMAIN e.issues : e.issues[j].path # <<>>}}

\* the messages of the issues that name the field, in order
FieldLine(e, key) ==
    ErrorLine(<<"- ">> \o highlighter_info(key) \o <<": ">>
              \o ArrayToString(MessagesOf(e.issues, key)))

\* C23: handleError never returns: whatever it is called with (a string, a
\* ZodError, an Error, anything else) it first logs the two generic lines,
\* can always go on until the process has exited, and exits with code 1.
\* Between the header and the closing break exactly one branch has written:
\* the string itself for a string, the message for an Error, nothing for any
\* other value, and for a ZodError the heading 'Validation failed:' followed
\* by one line per field that has errors, its raw message not being logged.
C23_HandleErrorExits ==
    /\ hpc \in {"start", "branch", "fieldErrors", "exited"}
    /\ hpc # "exited" => ENABLED NextHandleError
    /\ process.exited <=> hpc = "exited"
    /\ hpc # "start" =>
          /\ Len(logged) >= Len(HeaderLines)
          /\ SubSeq(logged, 1, Len(HeaderLines)) = HeaderLines
    /\ process.exited =>
          /\ process.code = 1
          /\ logged[Len(logged)] = BreakLine
          /\ LET body == SubSeq(logged, Len(HeaderLines) + 1, Len(logged) - 1)
             IN  /\ error.type = "string" => body = <<ErrorLine(<<error.value>>)>>
                 /\ error.type = "Error" => body = <<ErrorLine(<<error.message>>)>>
                 /\ error.type \in {"undefined", "number", "object"} => body = <<>>
                 /\ error.type = "ZodError" =>
                       /\ Len(body) = 1 + Cardinality(NamedFields(error))
                       /\ body[1] = ErrorLine(<<"Validation failed:">>)
                       /\ \A key \in NamedFields(error) :
                             Cardinality({i \in 2..Len(body) :
                                             body[i] = FieldLine(error, key)}) = 1
                       /\ \A i \in 1..Len(body) :
                             body[i] # ErrorLine(MessageOf(error))

\* the process has exited on a ZodError with two issues of the same field:
\* heading and one line for the field were logged
C23_Witness ==
    /\ process.exited
    /\ error.type = "ZodError"
    /\ Len(error.issues) = 2
    /\ NamedFields(error) = {"name"}
    /\ error.issues[1].path = <<"name">>
    /\ error.issues[2].path = <<"name">>
    /\ error.issues[1].message # error.issues[2].message
    /\ Len(logged) = Len(HeaderLines) + 3

----------------------------------------------------------------------------
(* The Form component: handleSubmit and resetForm *)

\* the values the form is given in this view: nothing entered, and two sets
\* of values that pass the validation
FilledValues(url) ==
    [k \in FieldKeys(fields) |->
        IF k = "aiUrl" THEN url
        ELSE IF k = "aiMaxContextChars" THEN <<512>>
        ELSE <<"a">>]
ShellValues == {EmptyValues, FilledValues(<<"a">>), FilledValues(<<"a", "a">>)}

\* the form renderer lets a submit through to onSubmit
PassesValidation(values) ==
    \A k \in FieldKeys(fields) :
        generateFormSchema(fields, values)[k] = NoFieldError

\* formState.isDirty of the generated form
formState_isDirty == fieldValues # defaultValues

\* the user changes the values of the form
ChangeValues ==
    /\ \E values \in ShellValues :
          /\ values # fieldValues
          /\ fieldValues' = values
    /\ UNCHANGED <<settings, toasts, defaultValues, lastSubmit, refForm, props,
                   fpc, calls, panelVars, formVars, onboardingVars, errorVars>>

\* the form renderer attaches its handle to refForm, or is unmounted and
\* takes it away
SetRef ==
    /\ refForm' = ~refForm
    /\ UNCHANGED <<settings, toasts, fieldValues, defaultValues, lastSubmit,
                   props, fpc, calls, panelVars, formVars, onboardingVars,
                   errorVars>>

\* Form.handleSubmit(values), called by the form renderer with values that
\* passed the validation, up to its await
Form_handleSubmit ==
    /\ fpc = "idle"
    /\ PassesValidation(fieldValues)
    /\ IF ~refForm
       THEN /\ calls' = <<"handleSubmit">>
            /\ UNCHANGED <<defaultValues, fpc>>
       ELSE IF ~props.onCreate
       THEN \* console.log({values}), then reset(getValues())
            /\ calls' = <<"handleSubmit", "console.log", "reset(getValues())">>
            /\ defaultValues' = fieldValues
            /\ UNCHANGED fpc
       ELSE /\ calls' = <<"handleSubmit", "onCreate">>
            /\ fpc' = "onCreate"
            /\ UNCHANGED defaultValues
    /\ UNCHANGED <<settings, toasts, fieldValues, lastSubmit, refForm, props,
                   panelVars, formVars, onboardingVars, errorVars>>

\* onCreate resolves: handleSubmit goes on with
\* refForm.current.reset(refForm.current.getValues()), which throws a
\* TypeError when the handle has gone in the meantime
onCreateResolves ==
    /\ fpc = "onCreate"
    /\ fpc' = "idle"
    /\ IF refForm
       THEN /\ calls' = calls \o <<"onCreate.resolved", "reset(getValues())">>
            /\ defaultValues' = fieldValues
       ELSE /\ calls' = calls \o <<"onCreate.resolved", "TypeError">>
            /\ UNCHANGED defaultValues
    /\ UNCHANGED <<settings, toasts, fieldValues, lastSubmit, refForm, props,
                   panelVars, formVars, onboardingVars, errorVars>>

\* faulty variant: the form is reset although onCreate failed
onCreateRejects_Resets ==
    /\ fpc = "onCreate"
    /\ fpc' = "idle"
    /\ calls' = calls \o <<"onCreate.rejected", "reset(getValues())">>
    /\ defaultValues' = fieldValues
    /\ UNCHANGED <<settings, toasts, fieldValues, lastSubmit, refForm, props,
                   panelVars, formVars, onboardingVars, errorVars>>

\* onCreate rejects: the await throws and handleSubmit rejects
onCreateRejects ==
    /\ fpc = "onCreate"
    /\ fpc' = "idle"
    /\ calls' = Append(calls, "onCreate.rejected")
    /\ UNCHANGED <<settings, toasts, fieldValues, defaultValues, lastSubmit,
                   refForm, props, panelVars, formVars, onboardingVars,
                   errorVars>>

\* Form.resetForm(), up to its await
Form_resetForm ==
    /\ fpc = "idle"
    /\ IF ~refForm
       THEN /\ calls' = <<"resetForm">>
            /\ UNCHANGED <<fieldValues, fpc>>
       ELSE /\ fieldValues' = defaultValues
            /\ IF props.onReset
               THEN /\ calls' = <<"resetForm", "reset()", "onReset">>
                    /\ fpc' = "onReset"
               ELSE /\ calls' = <<"resetForm", "reset()">>
                    /\ UNCHANGED fpc
    /\ UNCHANGED <<settings, toasts, defaultValues, lastSubmit, refForm, props,
                   panelVars, formVars, onboardingVars, errorVars>>

\* onReset settles: resetForm resolves or rejects with it
onResetSettles ==
    /\ fpc = "onReset"
    /\ fpc' = "idle"
    /\ \E outcome \in {"onReset.resolved", "onReset.rejected"} :
          calls' = Append(calls, outcome)
    /\ UNCHANGED <<settings, toasts, fieldValues, defaultValues, lastSubmit,
                   refForm, props, panelVars, formVars, onboardingVars,
                   errorVars>>

InitShell ==
    /\ fieldValues = EmptyValues
    /\ defaultValues = EmptyValues
    /\ lastSubmit = NoSubmit
    /\ refForm = FALSE
    /\ props \in [onCreate : BOOLEAN, onReset : BOOLEAN]
    /\ fpc = "idle"
    /\ calls = <<>>
    /\ settings = InitialSettings
    /\ toasts = <<>>
    /\ PanelIdle
    /\ FormIdle
    /\ OnboardingIdle
    /\ ErrorIdle

NextShell ==
    \/ ChangeValues
    \/ SetRef
    \/ Form_handleSubmit
    \/ onCreateResolves
    \/ onCreateRejects
    \/ Form_resetForm
    \/ onResetSettles

SpecShell == InitShell /\ [][NextShell]_vars

----------------------------------------------------------------------------
(* Claims about the Form component, checked under SpecShell *)

Called(call) == \E i \in DOMAIN calls : calls[i] = call

\* C21: Form.handleSubmit resets the form to its current values, which keeps
\* them and clears the dirty state, only after the submit callback has
\* resolved (or, when no callback was given, after logging the values); when
\* the callback rejects the reset is not performed and values and dirty state
\* stay as they are. Form.resetForm resets the form to its default values
\* before it calls onReset. With the form handle absent either operation
\* returns at once: no callback is called, nothing is reset.
C21_ResetAfterCallback ==
    /\ [](/\ \A i \in DOMAIN calls :
                calls[i] = "reset(getValues())" =>
                   /\ i > 1
                   /\ \/ calls[i - 1] = "onCreate.resolved"
                      \/ calls[i - 1] = "console.log" /\ ~props.onCreate
          /\ Called("onCreate.rejected") => ~Called("reset(getValues())")
          /\ \A i \in DOMAIN calls :
                calls[i] = "onReset" => (i > 1 /\ calls[i - 1] = "reset()"))
    /\ [][defaultValues' # defaultValues =>
            /\ calls'[Len(calls')] = "reset(getValues())"
            /\ defaultValues' = fieldValues
            /\ fieldValues' = fieldValues
            /\ ~formState_isDirty']_vars
    /\ [][(onCreateResolves /\ refForm) =>
            /\ fieldValues' = fieldValues
            /\ ~formState_isDirty']_vars
    /\ [][onCreateRejects =>
            /\ fieldValues' = fieldValues
            /\ defaultValues' = defaultValues
            /\ formState_isDirty' = formState_isDirty]_vars
    /\ [][(Form_resetForm /\ refForm) =>
            /\ fieldValues' = defaultValues
            /\ defaultValues' = defaultValues
            /\ ~formState_isDirty'
            /\ props.onReset <=> Called("onReset")']_vars
    /\ [][((Form_handleSubmit \/ Form_resetForm) /\ ~refForm) =>
            /\ fieldValues' = fieldValues
            /\ defaultValues' = defaultValues
            /\ fpc' = "idle"
            /\ Len(calls') = 1]_vars

\* the submit callback was called with the handle present and rejected: the
\* form was not reset and is still dirty
C21_Witness ==
    /\ calls = <<"handleSubmit", "onCreate", "onCreate.rejected">>
    /\ refForm
    /\ fpc = "idle"
    /\ formState_isDirty
    /\ defaultValues = EmptyValues
====
